---- MODULE Spec2Model ----
(***************************************************************************)
(* A model of DeckGenerator (src/deck_generator.py): the cache-backed      *)
(* generation pipeline.  One behaviour is a sequence of interpreter        *)
(* processes (runs of a generation script such as src/ko_en_gen.py) that   *)
(* share one cache directory and one output directory on disk.             *)
(*                                                                         *)
(* Python strings are TLA+ strings.  A name that the code rewrites with    *)
(* str.replace (schema field names, the deck name) is kept as the sequence *)
(* of its characters, so that replace is computed, and Text turns it into  *)
(* the string.  The file system is assumed to work (open, write and copy   *)
(* succeed); what is modelled of it is that the cache writes are not       *)
(* atomic: open(path, "w") truncates the cache file before anything is     *)
(* written to it, and shutil.copy2 creates the audio cache file before it  *)
(* fills it.  Files of the output directory are rewritten by every run     *)
(* before they are used, and their writes are single steps.                *)
(***************************************************************************)
EXTENDS Integers, Sequences, FiniteSets, TLC

\* ------------------------------------------------------------------ bounds
MaxItems == 2
MaxRuns == 2

\* ------------------------------------------------------- strings and names
RECURSIVE Text(_)
Text(cs) == IF cs = <<>> THEN "" ELSE Head(cs) \o Text(Tail(cs))

\* str.replace(old, new) on a name, both one character (new may be "").
replace(cs, old, new) == [k \in DOMAIN cs |-> IF cs[k] = old THEN new ELSE cs[k]]

Digit(d) == <<"0", "1", "2", "3", "4", "5", "6", "7", "8", "9">>[d + 1]

\* str(n) for a natural number.
RECURSIVE DecStr(_)
DecStr(n) == IF n < 10 THEN Digit(n) ELSE DecStr(n \div 10) \o Digit(n % 10)

\* "<sep>".join(l)
RECURSIVE join(_, _)
join(sep, l) ==
    IF l = <<>> THEN ""
    ELSE IF Len(l) = 1 THEN l[1]
    ELSE l[1] \o sep \o join(sep, Tail(l))

Range(f) == {f[k] : k \in DOMAIN f}

\* ------------------------------------------------------------ Python values
PyStr(s) == [t |-> "str", s |-> s, l |-> <<>>, n |-> 0]
PyList(l) == [t |-> "list", s |-> "", l |-> l, n |-> 0]
PyInt(n) == [t |-> "int", s |-> "", l |-> <<>>, n |-> n]
\* A float with one decimal digit, kept as its number of tenths.
PyFloat(n) == [t |-> "float", s |-> "", l |-> <<>>, n |-> n]
PyBool(b) == [t |-> "bool", s |-> "", l |-> <<>>, n |-> IF b THEN 1 ELSE 0]
PyNone == [t |-> "none", s |-> "", l |-> <<>>, n |-> 0]
\* A nested mapping (the empty one).
PyDict == [t |-> "dict", s |-> "", l |-> <<>>, n |-> 0]

\* str(x) of an int and of a float
IntStr(n) == DecStr(n)
FloatStr(n) == DecStr(n \div 10) \o "." \o Digit(n % 10)

\* The text an f-string puts for a value: str(x).
format(v) ==
    IF v.t = "str" THEN v.s
    ELSE IF v.t = "int" THEN IntStr(v.n)
    ELSE IF v.t = "float" THEN FloatStr(v.n)
    ELSE IF v.t = "bool" THEN (IF v.n = 1 THEN "True" ELSE "False")
    ELSE IF v.t = "none" THEN "None"
    ELSE IF v.t = "dict" THEN "{}"
    ELSE "[" \o join(", ", [k \in DOMAIN v.l |-> "'" \o v.l[k] \o "'"]) \o "]"

\* --------------------------------------------------- the script's settings
\* The declarative schema of the generation scripts, cut to one scalar and
\* one list field; the second name has the space the code normalizes.
script_ai_schema ==
    << [name |-> <<"t", "y", "p", "e">>, list |-> FALSE],
       [name |-> <<"s", "i", "n", "o", " ", "r", "o", "o", "t", "s">>, list |-> TRUE] >>

script_item_field == <<"w", "o", "r", "d">>
script_provided_fields == << <<"f", "r", "e", "q">> >>
\* The scripts' field_order: the provided field, the item field, the
\* schema's fields by their names in the note model.
script_field_order ==
    << <<"f", "r", "e", "q">>, <<"w", "o", "r", "d">>, <<"t", "y", "p", "e">>,
       <<"s", "i", "n", "o", " ", "r", "o", "o", "t", "s">> >>
deck_name == <<"K", "o", " ", "E", "n">>

ItemTexts == {"w1", "w2"}

\* What the caller gives: the schema, the item field, the provided fields
\* and the field order to SchemaConfig; the provided content and the guids
\* to gen_deck.
VARIABLES
    ai_schema,          \* SchemaConfig.ai_schema, in the order of the dict
    item_field,         \* SchemaConfig.item_field
    provided_fields,    \* SchemaConfig.provided_fields
    field_order,        \* SchemaConfig.field_order (<<>>: none is given)
    provided_content,   \* gen_deck's provided_content: field -> values by item
    guids               \* gen_deck's guids

\* gen_deck's defaults: provided_content=None and guids=None.  None is not
\* a mapping: it is kept apart from every mapping of field names by a key
\* that is no field name.
NoContent == [f \in {<<>>} |-> <<>>]
NoGuids == [given |-> FALSE, list |-> <<>>]
Guids(l) == [given |-> TRUE, list |-> l]

\* SchemaConfig.gen_ai_schema: fields[name.replace(' ', '_')] = type, in the
\* order of the dict (a repeated key keeps its first position and takes the
\* last type).
RECURSIVE gen_fields(_, _)
gen_fields(schema, fields) ==
    IF schema = <<>> THEN fields
    ELSE LET nm == replace(Head(schema).name, " ", "_")
             ty == IF Head(schema).list THEN "list" ELSE "str"
             at == {k \in DOMAIN fields : fields[k].name = nm}
         IN  gen_fields(Tail(schema),
                IF at = {} THEN Append(fields, [name |-> nm, type |-> ty])
                ELSE [k \in DOMAIN fields |->
                        IF k \in at THEN [name |-> nm, type |-> ty] ELSE fields[k]])

gen_ai_schema == gen_fields(ai_schema, <<>>)

pydantic_schema == gen_ai_schema

SchemaNames == {pydantic_schema[k].name : k \in DOMAIN pydantic_schema}

\* ------------------------------------------------------------ dictionaries
EmptyDict == [k \in {} |-> 0]

\* d[k] = v
SetItem(d, k, v) == [x \in DOMAIN d \cup {k} |-> IF x = k THEN v ELSE d[x]]

\* ------------------------------------------------------------------- JSON
\* A JSON value of the cache file: a string or an array of strings.
JString(s) == [j |-> "string", s |-> s, a |-> <<>>]
JArray(a) == [j |-> "array", s |-> "", a |-> a]

\* A variant of json_value that writes a list as one string; the round
\* trip property (C10) must tell it from json_value.
json_value_joined(v) ==
    IF v.t = "str" THEN JString(v.s) ELSE JString(join(",", v.l))

json_value(v) ==
    IF v.t = "str" THEN JString(v.s)
    ELSE JArray([k \in DOMAIN v.l |-> JString(v.l[k])])

\* json.dump(self.ai_content_cache, f): the whole map, one object per item.
json_dump(cache) ==
    [w \in DOMAIN cache |-> [f \in DOMAIN cache[w] |-> json_value(cache[w][f])]]

\* A variant of py_value that loads an array back to front; the rerun
\* property (C5) must tell it from py_value.
py_value_reversed(jv) ==
    IF jv.j = "string" THEN PyStr(jv.s)
    ELSE PyList([k \in DOMAIN jv.a |-> jv.a[Len(jv.a) + 1 - k].s])

py_value(jv) ==
    IF jv.j = "string" THEN PyStr(jv.s)
    ELSE PyList([k \in DOMAIN jv.a |-> jv.a[k].s])

\* json.load(f) of a complete document.
json_load(doc) ==
    [w \in DOMAIN doc |-> [f \in DOMAIN doc[w] |-> py_value(doc[w][f])]]

\* The cache file: absent, truncated (opened for writing, the document not
\* yet written and closed) or holding a complete document.
NoFile == [st |-> "absent", doc |-> EmptyDict]
Truncated == [st |-> "partial", doc |-> EmptyDict]
Written(doc) == [st |-> "full", doc |-> doc]

\* A variant of load_ai_cache that never reads the file; the in-flight
\* property (C3) must tell it from load_ai_cache.
load_nothing(file) == EmptyDict

\* DeckGenerator._load_ai_cache: a missing file and a file that does not
\* parse both give the empty cache.
load_ai_cache(file) ==
    IF file.st = "full" THEN json_load(file.doc) ELSE EmptyDict

\* self.pydantic_schema(**cached_data): every field of the schema is
\* required and has its declared type; other keys are ignored.
Validates(data) ==
    LET fields == pydantic_schema
    IN  \A k \in DOMAIN fields :
            /\ fields[k].name \in DOMAIN data
            /\ data[fields[k].name].t = fields[k].type

validate(data) == [nm \in SchemaNames |-> data[nm]]

\* What the generation provider can answer for the schema: a validated
\* record, every field present with the declared type.
StrVals == {"noun"}
ListVals == {<<>>, <<"a - x", "b - y">>}

ProviderRecords ==
    {r \in [SchemaNames -> {PyStr(s) : s \in StrVals} \cup {PyList(l) : l \in ListVals}] :
        Validates(r)}

\* What speech synthesis answers for a text: the bytes of the clip.  A file
\* that was created and not yet filled holds none of them.
PartialBytes == ""

synthesize_speech(text) == {"mp3:" \o text}

\* The scripts' provided_content: one value per item for each provided field.
script_provided_content ==
    [f \in Range(script_provided_fields) |-> [k \in 1..MaxItems |-> PyStr("f" \o DecStr(k))]]

\* ------------------------------------------------------- the note's fields
audio_name == <<"a", "u", "d", "i", "o">>

\* A variant of anki_fields that appends audio whenever audio generation is
\* on; the field list property (C23) must tell it from anki_fields.
anki_fields_always_audio(audio) ==
    LET base == IF field_order = <<>>
                THEN <<item_field>>
                     \o [k \in DOMAIN pydantic_schema |-> replace(pydantic_schema[k].name, "_", " ")]
                     \o [k \in DOMAIN provided_fields |-> replace(provided_fields[k], "_", " ")]
                ELSE [k \in DOMAIN field_order |-> replace(field_order[k], "_", " ")]
    IN  IF audio THEN Append(base, audio_name) ELSE base

\* DeckGenerator.__init__, lines 96-111: the note model's field names.
\* With no field_order: the item field, the schema's fields, the provided
\* fields; with one: its names.  Then audio when audio generation is on
\* and no field has that name.
anki_fields(audio) ==
    LET base == IF field_order = <<>>
                THEN <<item_field>>
                     \o [k \in DOMAIN pydantic_schema |-> replace(pydantic_schema[k].name, "_", " ")]
                     \o [k \in DOMAIN provided_fields |-> replace(provided_fields[k], "_", " ")]
                ELSE [k \in DOMAIN field_order |-> replace(field_order[k], "_", " ")]
    IN  IF audio /\ audio_name \notin Range(base) THEN Append(base, audio_name) ELSE base

\* ------------------------------------------------------- the card templates
\* A template is kept as the sequence of its parts: the replacement tags
\* {{name}}, the section tags {{#name}} and {{/name}}, the markup between
\* them, and a name that an f-string puts into the markup.
Txt(s) == [k |-> "text", s |-> s]
Var(nm) == [k |-> "var", s |-> nm]
Open(nm) == [k |-> "#", s |-> nm]
Close(nm) == [k |-> "/", s |-> nm]

\* A variant of field_section that shows the label whether or not the field
\* has a value: only the value is inside the section.  The template
\* property (C21) must tell it from field_section.
field_section_label_outside(field_name) ==
    << Txt("<p><span style=\"font-size: 11px; \">"), Txt(Text(field_name)),
       Txt("</span><br>"), Open(Text(field_name)), Var(Text(field_name)), Txt("</p>"),
       Close(Text(field_name)) >>

\* gen_afmt, line 131: what the f-string adds for one field.
field_section(field_name) ==
    << Open(Text(field_name)),
       Txt("<p><span style=\"font-size: 11px; \">"), Txt(Text(field_name)),
       Txt("</span><br>"), Var(Text(field_name)), Txt("</p>"),
       Close(Text(field_name)) >>

RECURSIVE field_sections(_)
field_sections(fields) ==
    IF fields = <<>> THEN <<>>
    ELSE field_section(Head(fields)) \o field_sections(Tail(fields))

\* DeckGenerator.gen_afmt: the back template, over self.anki_fields.
gen_afmt(fields) ==
    << Txt("<div style=\"text-align: left; font-size: 16px; \">"), Var("FrontSide"),
       Txt("</div><hr>") >>
    \o field_sections(fields)
    \o << Txt("</div>") >>

\* Lines 113-124: the note model, its fields and the templates of its card.
anki_model(audio) ==
    [ fields |-> anki_fields(audio),
      qfmt |-> << Txt("<p style=\"font-size: 24px; \">"), Var(Text(item_field)), Txt("</p>") >>,
      afmt |-> gen_afmt(anki_fields(audio)) ]

\* A variant of render_field that joins a list with ", "; the rendering
\* property (C16) must tell it from render_field.
render_field_comma(field_name, data) ==
    IF field_name \notin DOMAIN data THEN <<>>
    ELSE LET v == data[field_name]
         IN  IF field_name = audio_name THEN <<"[sound:" \o format(v) \o "]">>
             ELSE IF v.t = "str" THEN <<v.s>>
             ELSE IF v.t = "list" THEN <<join(", ", v.l)>>
             ELSE IF v.t = "int" THEN <<IntStr(v.n)>>
             ELSE IF v.t = "float" THEN <<FloatStr(v.n)>>
             ELSE <<>>

\* A variant of render_field that puts an empty string for a value of a
\* type it does not support; the drop property (C17) must tell it from
\* render_field.
render_field_placeholder(field_name, data) ==
    IF field_name \notin DOMAIN data THEN <<>>
    ELSE LET v == data[field_name]
         IN  IF field_name = audio_name THEN <<"[sound:" \o format(v) \o "]">>
             ELSE IF v.t = "str" THEN <<v.s>>
             ELSE IF v.t = "list" THEN <<join("<br>", v.l)>>
             ELSE IF v.t = "int" THEN <<IntStr(v.n)>>
             ELSE IF v.t = "float" THEN <<FloatStr(v.n)>>
             ELSE <<"">>

\* One field of gen_anki_note: the strings it appends (one or none).
render_field(field_name, data) ==
    IF field_name \notin DOMAIN data THEN <<>>
    ELSE LET v == data[field_name]
         IN  IF field_name = audio_name THEN <<"[sound:" \o format(v) \o "]">>
             ELSE IF v.t = "str" THEN <<v.s>>
             ELSE IF v.t = "list" THEN <<join("<br>", v.l)>>
             ELSE IF v.t = "int" THEN <<IntStr(v.n)>>
             ELSE IF v.t = "float" THEN <<FloatStr(v.n)>>
             ELSE <<>>

RECURSIVE note_fields(_, _)
note_fields(fields, data) ==
    IF fields = <<>> THEN <<>>
    ELSE render_field(Head(fields), data) \o note_fields(Tail(fields), data)

\* DeckGenerator.gen_anki_note
gen_anki_note(guid, data, audio) ==
    [guid |-> guid, fields |-> note_fields(anki_fields(audio), data)]

\* gen_deck: name_prefix and the guid of the item at (one-based) position k.
name_prefix == Text(replace(deck_name, " ", ""))

\* A variant of guid_of that numbers the notes whether or not a guid list
\* is given; the guid property (C22) must tell it from guid_of.
guid_of_numbered(k) == name_prefix \o "-" \o DecStr(k)

\* Lines 291-294: the element of the guid list when one is given.
guid_of(k) == IF guids.given THEN guids.list[k] ELSE name_prefix \o "-" \o DecStr(k)

audio_basename(k) == guid_of(k) \o ".mp3"

\* gen_deck lines 302-311: the data map of one item.
merge(card, item, k) ==
    LET dumped == [nm \in {replace(f, "_", " ") : f \in DOMAIN card} |->
                     card[CHOOSE f \in DOMAIN card : replace(f, "_", " ") = nm]]
        withItem == SetItem(dumped, item_field, PyStr(item))
    IN  [nm \in DOMAIN withItem \cup DOMAIN provided_content |->
            IF nm \in DOMAIN provided_content THEN provided_content[nm][k]
            ELSE withItem[nm]]

\* ------------------------------------------------------------------- state
VARIABLES
    cache_dir,          \* whether the pipeline is constructed with a cache directory
    gen_audio,          \* whether audio generation is on
    items,              \* the item list the script passes to gen_deck
    ai_cache_file,      \* disk: <cache_dir>/ai_content_cache.json
    audio_cache,        \* disk: <cache_dir>/audio, file name -> bytes
    media_dir,          \* disk: <output_dir>/media, file name -> bytes
    package_file,       \* disk: the package, or NoPackage
    run,                \* the number of the process, counted from 1
    pc,                 \* where the process is ("dead": it has ended)
    disp,               \* the process's disposition of SIGINT and SIGTERM
    atexit_registered,  \* whether _cleanup_cache is registered with atexit
    ai_content_cache,   \* self.ai_content_cache
    i,                  \* the loop index of gen_deck (one-based)
    card_note_ai,       \* the record of the item being processed
    response,           \* the synthesized bytes being stored
    dct,                \* the data map of the item being processed
    deck,               \* the notes added to the deck
    audio_file_paths,   \* gen_deck's list of media paths
    exc,                \* the exception propagating, or "none"
    hist,               \* what this process did: calls, flushes, signals
    prev,               \* how the last process that ended did end
    other               \* another pipeline of the process, with its own cache directory

vars == << ai_schema, item_field, provided_fields, field_order, provided_content, guids,
           cache_dir, gen_audio, items, ai_cache_file, audio_cache, media_dir,
           package_file, run, pc, disp, atexit_registered,
           ai_content_cache, i, card_note_ai, response, dct, deck,
           audio_file_paths, exc, hist, prev, other >>

config == << ai_schema, item_field, provided_fields, field_order, provided_content, guids,
             cache_dir, gen_audio, items >>
disk == << ai_cache_file, audio_cache, media_dir, package_file >>
handler == << run, disp >>
locals == << i, card_note_ai, response, dct, deck, audio_file_paths >>

Signals == {"SIGINT", "SIGTERM"}

NoCard == EmptyDict
NoPackage == [written |-> FALSE, notes |-> <<>>, media_files |-> <<>>]

\* The record of one process, kept for the statements about it.
NewHist(file) ==
    [ start_file |-> file,      \* the cache file when the process started
      provider |-> <<>>,        \* the loop indices of the provider calls made
      synth |-> <<>>,           \* the loop indices of the synthesis calls made
      failed_at |-> 0,          \* the loop index whose provider call failed
      flushes |-> 0,            \* calls of _save_ai_cache
      dumps |-> 0,              \* calls of _save_ai_cache that wrote the file
      flushed |-> EmptyDict,    \* the map the last of them wrote
      entered |-> FALSE,        \* whether gen_deck has been entered
      exported |-> FALSE ]      \* whether the package has been written

\* What is kept of a process that has ended.
NoPrev == [exit |-> "none", sig |-> "none", handled |-> FALSE, entered |-> FALSE,
           flushes |-> 0, n |-> 0, stage |-> "none", inflight |-> "",
           dumped |-> FALSE, flushed |-> EmptyDict, exported |-> FALSE, deck |-> <<>>]

\* A process that constructs no other pipeline.
NoOther == [constructed |-> FALSE,   \* whether it has been constructed
            first |-> FALSE,         \* whether that was before the script's pipeline
            handled |-> FALSE,       \* whether its signal handler has run
            file |-> NoFile,         \* disk: its ai_content_cache.json
            cache |-> EmptyDict,     \* its self.ai_content_cache
            ret |-> ""]              \* where the process goes on after its flush

InitialDisp == [s \in Signals |-> IF s = "SIGINT" THEN "default_int_handler" ELSE "SIG_DFL"]

ItemLists == {l \in UNION {[1..n -> ItemTexts] : n \in 1..MaxItems} : l[1] = "w1"}

Init ==
    /\ ai_schema = script_ai_schema
    /\ item_field = script_item_field
    /\ provided_fields = script_provided_fields
    /\ field_order = script_field_order
    /\ provided_content = script_provided_content
    /\ guids = NoGuids
    /\ cache_dir \in BOOLEAN
    /\ gen_audio \in BOOLEAN
    /\ items \in ItemLists
    /\ ai_cache_file = NoFile
    /\ audio_cache = EmptyDict
    /\ media_dir = EmptyDict
    /\ package_file = NoPackage
    /\ prev = NoPrev
    /\ pc = "init"
    /\ run = 1
    /\ disp = InitialDisp
    /\ atexit_registered = FALSE
    /\ ai_content_cache = EmptyDict
    /\ i = 0
    /\ card_note_ai = NoCard
    /\ response = "none"
    /\ dct = EmptyDict
    /\ deck = <<>>
    /\ audio_file_paths = <<>>
    /\ exc = "none"
    /\ hist = NewHist(NoFile)
    /\ other = NoOther

Running == pc # "dead"

\* ------------------------------------------------------- _save_ai_cache
\* open(self.ai_cache_file, 'w'): the file is truncated.
SaveOpen ==
    /\ ai_cache_file' = Truncated
    /\ hist' = [hist EXCEPT !.flushes = @ + 1]

\* json.dump(...) and the close of the file: the whole map is on disk.
SaveDump ==
    /\ ai_cache_file' = Written(json_dump(ai_content_cache))
    /\ hist' = [hist EXCEPT !.dumps = @ + 1, !.flushed = ai_content_cache]

\* ------------------------------------------------------------- __init__
\* A variant of Construct in which a cache file that does not parse makes
\* the constructor raise; the load property (C11) must tell it from
\* Construct.
ConstructStrict ==
    /\ pc = "init"
    /\ IF cache_dir /\ ai_cache_file.st = "partial"
       THEN /\ exc' = "JSONDecodeError"
            /\ pc' = "atexit"
            /\ UNCHANGED << ai_content_cache, atexit_registered, disp >>
       ELSE /\ ai_content_cache' = IF cache_dir THEN load_ai_cache(ai_cache_file) ELSE EmptyDict
            /\ atexit_registered' = cache_dir
            /\ disp' = IF cache_dir THEN [s \in {"SIGINT", "SIGTERM"} |-> "signal_handler"] ELSE disp
            /\ pc' = "gen_deck"
            /\ UNCHANGED exc
    /\ UNCHANGED << config, other, disk, run, locals, hist, prev >>

\* With a cache directory: _load_ai_cache and _register_cleanup_handlers.
Construct ==
    /\ Running /\ pc = "init"
    /\ IF cache_dir
       THEN /\ ai_content_cache' = load_ai_cache(ai_cache_file)
            /\ atexit_registered' = TRUE
            /\ disp' = [s \in Signals |-> "signal_handler"]
       ELSE /\ ai_content_cache' = EmptyDict
            /\ UNCHANGED << atexit_registered, disp >>
    /\ pc' = "gen_deck"
    /\ UNCHANGED << config, other, disk, run, locals, exc, hist, prev >>

\* ------------------------------------------------------------- gen_deck
\* Lines 275-285: the directories, the empty deck, the empty path list.
GenDeckEnter ==
    /\ Running /\ pc = "gen_deck"
    /\ i' = 1
    /\ deck' = <<>>
    /\ audio_file_paths' = <<>>
    /\ hist' = [hist EXCEPT !.entered = TRUE]
    /\ pc' = "loop"
    /\ UNCHANGED << config, other, disk, handler, atexit_registered, ai_content_cache,
                    card_note_ai, response, dct, exc, prev >>

\* The loop is over: control enters the finally block with no exception.
LoopEnd ==
    /\ Running /\ pc = "loop" /\ i > Len(items)
    /\ pc' = "finally"
    /\ UNCHANGED << config, other, disk, handler, atexit_registered, ai_content_cache,
                    locals, exc, hist, prev >>

\* An exception raised inside the try block: control enters finally.
Raise(e) ==
    /\ exc' = e
    /\ pc' = "finally"

\* Line 292, guids[i]: whether the guid list has an element for item i.
GuidResolves == guids.given => i <= Len(guids.list)

\* The guid list is shorter than the item list: guids[i] raises.
GuidFail ==
    /\ Running /\ pc = "loop" /\ i <= Len(items)
    /\ ~GuidResolves
    /\ Raise("IndexError")
    /\ UNCHANGED << config, other, disk, handler, atexit_registered, ai_content_cache,
                    locals, hist, prev >>

\* gen_ai_content, lines 219-222: the item is in the cache.
CacheHit ==
    /\ Running /\ pc = "loop" /\ i <= Len(items) /\ GuidResolves
    /\ cache_dir /\ items[i] \in DOMAIN ai_content_cache
    /\ IF Validates(ai_content_cache[items[i]])
       THEN /\ card_note_ai' = validate(ai_content_cache[items[i]])
            /\ pc' = "merge"
            /\ UNCHANGED exc
       ELSE /\ Raise("ValidationError")
            /\ UNCHANGED card_note_ai
    /\ UNCHANGED << config, other, disk, handler, atexit_registered, ai_content_cache,
                    i, response, dct, deck, audio_file_paths, hist, prev >>

\* A variant of ProviderCall without the cache lookup; the resume property
\* (C4) must tell it from ProviderCall.
ProviderCallNoLookup ==
    /\ pc # "dead" /\ pc = "loop" /\ i <= Len(items)
    /\ hist' = [hist EXCEPT !.provider = Append(@, i)]
    /\ pc' = "provider"
    /\ UNCHANGED << config, other, disk, handler, atexit_registered, ai_content_cache,
                    locals, exc, prev >>

\* gen_ai_content, lines 224-239: the request to the generation provider.
ProviderCall ==
    /\ Running /\ pc = "loop" /\ i <= Len(items) /\ GuidResolves
    /\ ~(cache_dir /\ items[i] \in DOMAIN ai_content_cache)
    /\ hist' = [hist EXCEPT !.provider = Append(@, i)]
    /\ pc' = "provider"
    /\ UNCHANGED << config, other, disk, handler, atexit_registered, ai_content_cache,
                    locals, exc, prev >>

\* A variant of ProviderReturn that never puts the record into the cache;
\* the signal property (C2) must tell it from ProviderReturn.
ProviderReturnNoPut ==
    /\ pc # "dead" /\ pc = "provider"
    /\ \E r \in ProviderRecords : card_note_ai' = r
    /\ pc' = "merge"
    /\ UNCHANGED << config, other, disk, handler, atexit_registered, ai_content_cache,
                    i, response, dct, deck, audio_file_paths, exc, hist, prev >>

\* A variant of ProviderReturn whose put writes the cache file through;
\* the put property (C19) must tell it from ProviderReturn.
ProviderReturnWriteThrough ==
    /\ pc = "provider"
    /\ \E r \in ProviderRecords :
        /\ card_note_ai' = r
        /\ ai_content_cache' =
              IF cache_dir THEN SetItem(ai_content_cache, items[i], r)
              ELSE ai_content_cache
    /\ ai_cache_file' =
          IF cache_dir THEN Written(json_dump(ai_content_cache')) ELSE ai_cache_file
    /\ pc' = "merge"
    /\ UNCHANGED << config, other, audio_cache, media_dir, package_file, handler,
                    atexit_registered, i, response, dct, deck, audio_file_paths,
                    exc, hist, prev >>

\* A variant of ProviderReturn that puts the record under the note's guid
\* and not under the item's text; the property of repeated texts (C24) must
\* tell it from ProviderReturn.
ProviderReturnKeyedByGuid ==
    /\ pc = "provider"
    /\ \E r \in ProviderRecords :
        /\ card_note_ai' = r
        /\ ai_content_cache' =
              IF cache_dir THEN SetItem(ai_content_cache, guid_of(i), r)
              ELSE ai_content_cache
    /\ pc' = "merge"
    /\ UNCHANGED << config, other, disk, handler, atexit_registered,
                    i, response, dct, deck, audio_file_paths, exc, hist, prev >>

\* The provider answers; lines 241-245 put the record into the cache.
ProviderReturn ==
    /\ Running /\ pc = "provider"
    /\ \E r \in ProviderRecords :
        /\ card_note_ai' = r
        /\ ai_content_cache' =
              IF cache_dir THEN SetItem(ai_content_cache, items[i], r)
              ELSE ai_content_cache
    /\ pc' = "merge"
    /\ UNCHANGED << config, other, disk, handler, atexit_registered,
                    i, response, dct, deck, audio_file_paths, exc, hist, prev >>

\* A variant of ProviderFail in which the loop catches the error and goes
\* on with the next item; the failure property (C7) must tell it from
\* ProviderFail.
ProviderFailSkipped ==
    /\ pc # "dead" /\ pc = "provider"
    /\ hist' = [hist EXCEPT !.failed_at = i]
    /\ i' = i + 1
    /\ pc' = "loop"
    /\ UNCHANGED << config, other, disk, handler, atexit_registered, ai_content_cache,
                    card_note_ai, response, dct, deck, audio_file_paths, exc, prev >>

\* The provider call raises: nothing in gen_ai_content or the loop catches it.
ProviderFail ==
    /\ Running /\ pc = "provider"
    /\ Raise("GenerationError")
    /\ hist' = [hist EXCEPT !.failed_at = i]
    /\ UNCHANGED << config, other, disk, handler, atexit_registered, ai_content_cache,
                    locals, prev >>

\* A variant of Merge that goes to the rendering without the audio; the
\* order property (C18) must tell it from Merge.
MergeSkipAudio ==
    /\ pc = "merge"
    /\ dct' = merge(card_note_ai, items[i], i)
    /\ pc' = "render"
    /\ UNCHANGED << config, other, disk, handler, atexit_registered, ai_content_cache,
                    i, card_note_ai, response, deck, audio_file_paths, exc, hist, prev >>

\* A variant of Merge that takes provided_content=None for no provided
\* content; the property of the default (C28) must tell it from Merge.
MergeNoneAsEmpty ==
    /\ pc = "merge"
    /\ dct' = IF provided_content = NoContent
              THEN SetItem(card_note_ai, item_field, PyStr(items[i]))
              ELSE merge(card_note_ai, items[i], i)
    /\ pc' = IF gen_audio THEN "audio" ELSE "render"
    /\ UNCHANGED << config, other, disk, handler, atexit_registered, ai_content_cache,
                    i, card_note_ai, response, deck, audio_file_paths, exc, hist, prev >>

\* Lines 302-311: the data map of the item.  With provided_content=None,
\* line 310 (provided_content.items()) raises.
Merge ==
    /\ Running /\ pc = "merge"
    /\ IF provided_content = NoContent
       THEN /\ Raise("AttributeError")
            /\ UNCHANGED dct
       ELSE /\ dct' = merge(card_note_ai, items[i], i)
            /\ pc' = IF gen_audio THEN "audio" ELSE "render"
            /\ UNCHANGED exc
    /\ UNCHANGED << config, other, disk, handler, atexit_registered, ai_content_cache,
                    i, card_note_ai, response, deck, audio_file_paths, hist, prev >>

\* ------------------------------------------------------- gen_audio_file
\* A variant of AudioCacheHit that looks the item text up, not the file
\* name; the key property (C15) must tell it from AudioCacheHit.
AudioCacheHitByText ==
    /\ pc = "audio" /\ cache_dir
    /\ \E nm \in DOMAIN audio_cache :
          /\ audio_cache[nm] \in synthesize_speech(items[i])
          /\ media_dir' = SetItem(media_dir, audio_basename(i), audio_cache[nm])
    /\ pc' = "audio_done"
    /\ UNCHANGED << config, other, ai_cache_file, audio_cache, package_file, handler,
                    atexit_registered, ai_content_cache, locals, exc, hist, prev >>

\* Lines 184-192: a file of that name is in the audio cache; it is copied
\* to the output media directory and no synthesis is requested.
AudioCacheHit ==
    /\ Running /\ pc = "audio"
    /\ cache_dir /\ audio_basename(i) \in DOMAIN audio_cache
    /\ media_dir' = SetItem(media_dir, audio_basename(i), audio_cache[audio_basename(i)])
    /\ pc' = "audio_done"
    /\ UNCHANGED << config, other, ai_cache_file, audio_cache, package_file, handler,
                    atexit_registered, ai_content_cache, locals, exc, hist, prev >>

\* Lines 194-202: the request to speech synthesis.
SynthCall ==
    /\ Running /\ pc = "audio"
    /\ ~(cache_dir /\ audio_basename(i) \in DOMAIN audio_cache)
    /\ hist' = [hist EXCEPT !.synth = Append(@, i)]
    /\ pc' = "synth"
    /\ UNCHANGED << config, other, disk, handler, atexit_registered, ai_content_cache,
                    locals, exc, prev >>

SynthReturn ==
    /\ Running /\ pc = "synth"
    /\ \E b \in synthesize_speech(items[i]) : response' = b
    /\ pc' = "audio_write"
    /\ UNCHANGED << config, other, disk, handler, atexit_registered, ai_content_cache,
                    i, card_note_ai, dct, deck, audio_file_paths, exc, hist, prev >>

SynthFail ==
    /\ Running /\ pc = "synth"
    /\ Raise("SynthesisError")
    /\ UNCHANGED << config, other, disk, handler, atexit_registered, ai_content_cache,
                    locals, hist, prev >>

\* A variant of AudioWrite that writes the bytes to the cache path and not
\* to the output path; the miss property (C14) must tell it from AudioWrite.
AudioWriteCacheFirst ==
    /\ pc = "audio_write"
    /\ audio_cache' = SetItem(audio_cache, audio_basename(i), response)
    /\ pc' = "audio_copy"
    /\ UNCHANGED << config, other, ai_cache_file, media_dir, package_file, handler,
                    atexit_registered, ai_content_cache, locals, exc, hist, prev >>

\* Lines 205-206: the bytes are written to the output media file.
AudioWrite ==
    /\ Running /\ pc = "audio_write"
    /\ media_dir' = SetItem(media_dir, audio_basename(i), response)
    /\ pc' = "audio_copy"
    /\ UNCHANGED << config, other, ai_cache_file, audio_cache, package_file, handler,
                    atexit_registered, ai_content_cache, locals, exc, hist, prev >>

\* Lines 209-212, shutil.copy2 into the audio cache: the destination file
\* is created (or truncated) before the bytes are copied into it.
AudioCopyOpen ==
    /\ Running /\ pc = "audio_copy" /\ cache_dir
    /\ audio_cache' = SetItem(audio_cache, audio_basename(i), PartialBytes)
    /\ pc' = "audio_copying"
    /\ UNCHANGED << config, other, ai_cache_file, media_dir, package_file, handler,
                    atexit_registered, ai_content_cache, locals, exc, hist, prev >>

\* The bytes of the output file are in the cache file and it is closed.
AudioCopy ==
    /\ Running /\ pc = "audio_copying"
    /\ audio_cache' = SetItem(audio_cache, audio_basename(i), media_dir[audio_basename(i)])
    /\ pc' = "audio_done"
    /\ UNCHANGED << config, other, ai_cache_file, media_dir, package_file, handler,
                    atexit_registered, ai_content_cache, locals, exc, hist, prev >>

\* Line 209 without a cache directory: nothing is copied.
AudioNoCache ==
    /\ Running /\ pc = "audio_copy" /\ ~cache_dir
    /\ pc' = "audio_done"
    /\ UNCHANGED << config, other, disk, handler, atexit_registered, ai_content_cache,
                    locals, exc, hist, prev >>

\* A variant of AudioDone that collects the file's name and not its path;
\* the media list property (C27) must tell it from AudioDone.
AudioDoneBasename ==
    /\ pc = "audio_done"
    /\ dct' = SetItem(dct, audio_name, PyStr(audio_basename(i)))
    /\ audio_file_paths' = Append(audio_file_paths, audio_basename(i))
    /\ pc' = "render"
    /\ UNCHANGED << config, other, disk, handler, atexit_registered, ai_content_cache,
                    i, card_note_ai, response, deck, exc, hist, prev >>

\* gen_deck lines 319-320, after gen_audio_file has returned.
AudioDone ==
    /\ Running /\ pc = "audio_done"
    /\ dct' = SetItem(dct, audio_name, PyStr(audio_basename(i)))
    /\ audio_file_paths' = Append(audio_file_paths, "output/media/" \o audio_basename(i))
    /\ pc' = "render"
    /\ UNCHANGED << config, other, disk, handler, atexit_registered, ai_content_cache,
                    i, card_note_ai, response, deck, exc, hist, prev >>

\* Lines 322-327: the note is rendered and added; the loop goes on.
Render ==
    /\ Running /\ pc = "render"
    /\ deck' = Append(deck, gen_anki_note(guid_of(i), dct, gen_audio))
    /\ i' = i + 1
    /\ pc' = "loop"
    /\ UNCHANGED << config, other, disk, handler, atexit_registered, ai_content_cache,
                    card_note_ai, response, dct, audio_file_paths, exc, hist, prev >>

\* ------------------------------------------------------- the process ends
TryPcs == {"loop", "provider", "merge", "audio", "synth", "audio_write",
           "audio_copy", "audio_copying", "audio_done", "render"}

\* The item the process had a provider call for and had not yet added to
\* the deck when an exception or a signal ended the loop ("": none), and
\* how far its content had come.
InFlight ==
    IF /\ i \in Range(hist.provider)
       /\ \/ exc \in {"GenerationError", "SynthesisError"}
          \/ exc = "none" /\ pc \in TryPcs \ {"loop"}
    THEN items[i] ELSE ""

Stage ==
    IF InFlight = "" THEN "none"
    ELSE IF exc = "GenerationError" \/ (exc = "none" /\ pc = "provider") THEN "resolving"
    ELSE "resolved"

\* The process is gone, and its memory with it; the disk stays.
Die(kind, sig, handled, file) ==
    /\ prev' = [exit |-> kind, sig |-> sig, handled |-> handled,
                entered |-> hist.entered,
                flushes |-> hist.flushes + (IF handled THEN 1 ELSE 0),
                n |-> Len(deck),
                stage |-> IF kind \in {"error", "signal"} THEN Stage ELSE "none",
                inflight |-> IF kind \in {"error", "signal"} THEN InFlight ELSE "",
                dumped |-> handled \/ hist.dumps > 0,
                flushed |-> IF handled THEN ai_content_cache ELSE hist.flushed,
                exported |-> hist.exported,
                deck |-> IF kind = "normal" THEN deck ELSE <<>>]
    /\ pc' = "dead"
    /\ disp' = InitialDisp
    /\ atexit_registered' = FALSE
    /\ ai_content_cache' = EmptyDict
    /\ i' = 0
    /\ card_note_ai' = NoCard
    /\ response' = "none"
    /\ dct' = EmptyDict
    /\ deck' = <<>>
    /\ audio_file_paths' = <<>>
    /\ exc' = "none"
    /\ hist' = NewHist(file)
    /\ UNCHANGED run

\* ------------------------------------------------- finally, lines 329-332
\* A variant of AfterFinally that exports whatever the loop did; the
\* export property (C8) must tell it from AfterFinally.
AlwaysExport == "export"

AfterFinally == IF exc = "none" THEN "export" ELSE "raised"

\* A variant of FinallySaveOpen in which the finally block does not flush;
\* the flush count (C1) must tell it from FinallySaveOpen.
FinallySkip ==
    /\ pc # "dead" /\ pc = "finally" /\ cache_dir
    /\ pc' = (IF exc = "none" THEN "export" ELSE "raised")
    /\ UNCHANGED << config, other, disk, handler, atexit_registered, ai_content_cache,
                    locals, exc, hist, prev >>

FinallySaveOpen ==
    /\ Running /\ pc = "finally" /\ cache_dir
    /\ SaveOpen
    /\ pc' = "finally_dump"
    /\ UNCHANGED << config, other, audio_cache, media_dir, package_file, handler,
                    atexit_registered, ai_content_cache, locals, exc, prev >>

FinallySaveDump ==
    /\ Running /\ pc = "finally_dump"
    /\ SaveDump
    /\ pc' = AfterFinally
    /\ UNCHANGED << config, other, audio_cache, media_dir, package_file, handler,
                    atexit_registered, ai_content_cache, locals, exc, prev >>

FinallyNoCache ==
    /\ Running /\ pc = "finally" /\ ~cache_dir
    /\ pc' = AfterFinally
    /\ UNCHANGED << config, other, disk, handler, atexit_registered, ai_content_cache,
                    locals, exc, hist, prev >>

\* Lines 334-337: the package is written from the deck and the media paths.
Export ==
    /\ Running /\ pc = "export"
    /\ package_file' = [written |-> TRUE, notes |-> deck, media_files |-> audio_file_paths]
    /\ hist' = [hist EXCEPT !.exported = TRUE]
    /\ pc' = "returned"
    /\ UNCHANGED << config, other, ai_cache_file, audio_cache, media_dir, handler,
                    atexit_registered, ai_content_cache, locals, exc, prev >>

\* ------------------------------------------------------ the script's end
\* gen_deck is the script's last statement and nothing catches what it
\* raises: the interpreter shuts down and runs the atexit callbacks.
Finalize ==
    /\ Running /\ pc \in {"returned", "raised"}
    /\ pc' = "atexit"
    /\ UNCHANGED << config, other, disk, handler, atexit_registered, ai_content_cache,
                    locals, exc, hist, prev >>

\* _cleanup_cache, registered with atexit (lines 162, 175-179).
AtexitSaveOpen ==
    /\ Running /\ pc = "atexit" /\ atexit_registered /\ cache_dir
    /\ SaveOpen
    /\ pc' = "atexit_dump"
    /\ UNCHANGED << config, other, audio_cache, media_dir, package_file, handler,
                    atexit_registered, ai_content_cache, locals, exc, prev >>

AtexitSaveDump ==
    /\ Running /\ pc = "atexit_dump"
    /\ SaveDump
    /\ pc' = "exit"
    /\ UNCHANGED << config, other, audio_cache, media_dir, package_file, handler,
                    atexit_registered, ai_content_cache, locals, exc, prev >>

ProcessExit ==
    /\ Running
    /\ \/ pc = "exit"
       \/ pc = "atexit" /\ ~(atexit_registered /\ cache_dir)
    /\ Die(IF exc = "none" THEN "normal" ELSE "error", "none", FALSE, ai_cache_file)
    /\ UNCHANGED << config, other, disk >>

\* ------------------------------------------------------------------ signals
\* A variant of signal_handler that sends the signal on without saving the
\* cache; the handler property (C6) must tell it from signal_handler.
signal_handler_nosave(sig) ==
    /\ pc # "dead"
    /\ disp[sig] = "signal_handler"
    /\ Die("signal", sig, TRUE, ai_cache_file)
    /\ UNCHANGED << config, other, disk >>

\* signal_handler (lines 165-170), installed for SIGINT and SIGTERM: it
\* saves the cache (_cleanup_cache -> _save_ai_cache), restores the default
\* disposition of the signal and sends the signal to the process, which
\* then dies of it.  The handler runs on the main thread, wherever that is.
signal_handler(sig) ==
    /\ Running
    /\ disp[sig] = "signal_handler"
    /\ ai_cache_file' = Written(json_dump(ai_content_cache))
    /\ Die("signal", sig, TRUE, Written(json_dump(ai_content_cache)))
    /\ UNCHANGED << config, other, audio_cache, media_dir, package_file >>

\* SIGTERM with no handler installed: the default disposition.
SignalDefault(sig) ==
    /\ Running
    /\ disp[sig] = "SIG_DFL"
    /\ Die("signal", sig, FALSE, ai_cache_file)
    /\ UNCHANGED << config, other, disk >>

\* SIGINT with no handler installed: Python raises KeyboardInterrupt.
KeyboardInterrupt ==
    /\ Running
    /\ disp["SIGINT"] = "default_int_handler"
    /\ exc # "KeyboardInterrupt"
    /\ exc' = "KeyboardInterrupt"
    /\ pc' = IF pc \in TryPcs THEN "finally"
             ELSE IF pc \in {"atexit", "exit"} THEN pc ELSE "atexit"
    /\ UNCHANGED << config, other, disk, handler, atexit_registered, ai_content_cache,
                    locals, hist, prev >>

\* The process is ended from outside with no handler run (SIGKILL, power).
Kill ==
    /\ Running
    /\ Die("killed", "none", FALSE, ai_cache_file)
    /\ UNCHANGED << config, other, disk >>

\* ------------------------------------------------------- the next process
\* The script is started again, with the same settings and the same disk.
\* Of the summary of the ended process, what a later process is compared
\* with is kept (how it ended, its in-flight item, its dump, its notes).
NextRun ==
    /\ pc = "dead"
    /\ run < MaxRuns
    /\ run' = run + 1
    /\ pc' = "init"
    /\ prev' = [prev EXCEPT !.sig = "none", !.flushes = 0, !.n = 0, !.entered = FALSE]
    /\ UNCHANGED << config, other, disk, disp, atexit_registered, ai_content_cache,
                    locals, exc, hist >>

Next ==
    \/ Construct
    \/ GenDeckEnter
    \/ LoopEnd
    \/ CacheHit
    \/ ProviderCall
    \/ ProviderReturn
    \/ ProviderFail
    \/ Merge
    \/ AudioCacheHit
    \/ SynthCall
    \/ SynthReturn
    \/ SynthFail
    \/ AudioWrite
    \/ AudioCopyOpen
    \/ AudioCopy
    \/ AudioNoCache
    \/ AudioDone
    \/ Render
    \/ FinallySaveOpen
    \/ FinallySaveDump
    \/ FinallyNoCache
    \/ Export
    \/ Finalize
    \/ AtexitSaveOpen
    \/ AtexitSaveDump
    \/ ProcessExit
    \/ \E sig \in Signals : signal_handler(sig)
    \/ \E sig \in Signals : SignalDefault(sig)
    \/ KeyboardInterrupt
    \/ Kill
    \/ NextRun

Spec == Init /\ [][Next]_vars

\* ------------------------------------------------- the callers' other inputs
\* One undisturbed process over what a caller of the library can give it.
\* Either the scripts' field names with a schema that may have two names
\* that normalize to the same name, provided content of every JSON-like
\* type or with a field missing, and any item list; or the scripts'
\* settings with an audio cache that earlier runs left, possibly for
\* another item list; or the scripts' schema with item and provided field
\* names that may have an underscore, with or without a field order, a
\* guid list (possibly too short) and provided content.
colliding_ai_schema ==
    << [name |-> <<"a", " ", "b">>, list |-> FALSE],
       [name |-> <<"a", "_", "b">>, list |-> TRUE] >>

Schemas == {script_ai_schema, colliding_ai_schema}

ProvidedValues ==
    {PyStr("f1"), PyList(<<"x", "y">>), PyInt(7), PyFloat(15), PyBool(TRUE), PyNone, PyDict}

Contents ==
    {EmptyDict} \cup
    {[f \in Range(provided_fields) |-> [k \in 1..MaxItems |-> v]] : v \in ProvidedValues}

AllItemLists == UNION {[1..n -> ItemTexts] : n \in 1..MaxItems}

AudioNames == {audio_basename(k) : k \in 1..MaxItems}

AudioCaches ==
    UNION {[names -> UNION {synthesize_speech(w) : w \in ItemTexts}] : names \in SUBSET AudioNames}

ItemFields == {script_item_field, <<"t", "h", "e", "_", "w">>}

ProvidedFieldLists == {script_provided_fields, << <<"m", "y", "_", "f">> >>}

\* Field orders a caller can write from its names: as the scripts do (the
\* provided fields, the item field, the schema's fields), or a shorter one
\* that names audio itself.
FieldOrders ==
    { <<>>,
      provided_fields \o <<item_field>>
          \o [k \in DOMAIN ai_schema |-> replace(ai_schema[k].name, "_", " ")],
      <<item_field, audio_name, ai_schema[1].name>> }

GuidLists ==
    {NoGuids, Guids([k \in 1..MaxItems |-> "g" \o DecStr(k)]), Guids(<<"g1">>)}

\* The provided content a caller keys by its provided fields, or none.
CallerContents ==
    {NoContent,
     [f \in Range(provided_fields) |-> [k \in 1..MaxItems |-> PyStr("f" \o DecStr(k))]]}

InputInit ==
    /\ \/ /\ ai_schema \in Schemas
          /\ item_field = script_item_field
          /\ provided_fields = script_provided_fields
          /\ field_order = <<>>
          /\ provided_content \in Contents
          /\ guids = NoGuids
          /\ cache_dir \in BOOLEAN
          /\ gen_audio \in BOOLEAN
          /\ audio_cache = EmptyDict
          /\ items \in AllItemLists
       \/ /\ ai_schema = script_ai_schema
          /\ item_field = script_item_field
          /\ provided_fields = script_provided_fields
          /\ field_order = <<>>
          /\ provided_content = script_provided_content
          /\ guids = NoGuids
          /\ cache_dir = TRUE
          /\ gen_audio = TRUE
          /\ audio_cache \in AudioCaches
          /\ items \in AllItemLists
       \/ /\ ai_schema = script_ai_schema
          /\ item_field \in ItemFields
          /\ provided_fields \in ProvidedFieldLists
          /\ field_order \in FieldOrders
          /\ provided_content \in CallerContents
          /\ guids \in GuidLists
          /\ cache_dir \in BOOLEAN
          /\ gen_audio \in BOOLEAN
          /\ audio_cache = EmptyDict
          /\ items \in ItemLists
    /\ ai_cache_file = NoFile
    /\ media_dir = EmptyDict
    /\ package_file = NoPackage
    /\ prev = NoPrev
    /\ pc = "init"
    /\ run = 1
    /\ disp = InitialDisp
    /\ atexit_registered = FALSE
    /\ ai_content_cache = EmptyDict
    /\ i = 0
    /\ card_note_ai = NoCard
    /\ response = "none"
    /\ dct = EmptyDict
    /\ deck = <<>>
    /\ audio_file_paths = <<>>
    /\ exc = "none"
    /\ hist = NewHist(NoFile)
    /\ other = NoOther

InputNext ==
    \/ Construct
    \/ GenDeckEnter
    \/ LoopEnd
    \/ GuidFail
    \/ CacheHit
    \/ ProviderCall
    \/ ProviderReturn
    \/ Merge
    \/ AudioCacheHit
    \/ SynthCall
    \/ SynthReturn
    \/ AudioWrite
    \/ AudioCopyOpen
    \/ AudioCopy
    \/ AudioNoCache
    \/ AudioDone
    \/ Render
    \/ FinallySaveOpen
    \/ FinallySaveDump
    \/ FinallyNoCache
    \/ Export
    \/ Finalize
    \/ AtexitSaveOpen
    \/ AtexitSaveDump
    \/ ProcessExit

InputSpec == InputInit /\ [][InputNext]_vars

\* --------------------------------------------- two pipelines in one process
\* A process that constructs, besides the script's pipeline, another
\* DeckGenerator with another cache directory, before or after it, and uses
\* both, until gen_deck of the script's pipeline has returned or a signal
\* ends the process.  Of the other pipeline what touches its cache is kept:
\* the load, the puts of gen_ai_content, _save_ai_cache, its signal handler.
BetweenCalls == {"init", "gen_deck", "returned"}

\* A variant of ConstructOther that installs its signal handler only where
\* no pipeline's handler is installed yet; the property of two pipelines
\* (C26) must tell it from ConstructOther.
ConstructOtherKeepsHandler ==
    /\ pc \in {"init", "gen_deck"} /\ ~other.constructed
    /\ other' = [other EXCEPT !.constructed = TRUE, !.first = (pc = "init"),
                              !.cache = load_ai_cache(other.file)]
    /\ disp' = [s \in Signals |->
                  IF disp[s] = "signal_handler" THEN disp[s] ELSE "other_signal_handler"]
    /\ UNCHANGED << config, disk, run, pc, atexit_registered, ai_content_cache,
                    locals, exc, hist, prev >>

\* __init__ of the other pipeline, lines 85-93: _load_ai_cache of its file
\* and _register_cleanup_handlers, whose signal.signal calls (lines 172-173)
\* replace whatever handler is installed.
ConstructOther ==
    /\ Running /\ pc \in {"init", "gen_deck"} /\ ~other.constructed
    /\ other' = [other EXCEPT !.constructed = TRUE, !.first = (pc = "init"),
                              !.cache = load_ai_cache(other.file)]
    /\ disp' = [s \in Signals |-> "other_signal_handler"]
    /\ UNCHANGED << config, disk, run, pc, atexit_registered, ai_content_cache,
                    locals, exc, hist, prev >>

\* gen_ai_content of the other pipeline, line 242: a record is put.
OtherPut ==
    /\ Running /\ pc \in BetweenCalls /\ other.constructed
    /\ \E w \in ItemTexts, r \in ProviderRecords :
          other' = [other EXCEPT !.cache = SetItem(@, w, r)]
    /\ UNCHANGED << config, disk, handler, pc, atexit_registered, ai_content_cache,
                    locals, exc, hist, prev >>

\* _save_ai_cache of the other pipeline: open(..., 'w'), then json.dump.
OtherSaveOpen ==
    /\ Running /\ pc \in BetweenCalls /\ other.constructed
    /\ other' = [other EXCEPT !.file = Truncated, !.ret = pc]
    /\ pc' = "other_dump"
    /\ UNCHANGED << config, disk, handler, atexit_registered, ai_content_cache,
                    locals, exc, hist, prev >>

OtherSaveDump ==
    /\ Running /\ pc = "other_dump"
    /\ other' = [other EXCEPT !.file = Written(json_dump(other.cache)), !.ret = ""]
    /\ pc' = other.ret
    /\ UNCHANGED << config, disk, handler, atexit_registered, ai_content_cache,
                    locals, exc, hist, prev >>

\* signal_handler of the other pipeline (lines 165-170): the closure saves
\* the cache of the pipeline that installed it, and the process dies.
OtherSignalHandler(sig) ==
    /\ Running
    /\ disp[sig] = "other_signal_handler"
    /\ other' = [other EXCEPT !.file = Written(json_dump(other.cache)), !.handled = TRUE]
    /\ Die("signal", sig, FALSE, ai_cache_file)
    /\ UNCHANGED << config, disk >>

TwoInit ==
    /\ ai_schema = script_ai_schema
    /\ item_field = script_item_field
    /\ provided_fields = script_provided_fields
    /\ field_order = script_field_order
    /\ provided_content = script_provided_content
    /\ guids = NoGuids
    /\ cache_dir = TRUE
    /\ gen_audio = FALSE
    /\ items \in ItemLists
    /\ ai_cache_file = NoFile
    /\ audio_cache = EmptyDict
    /\ media_dir = EmptyDict
    /\ package_file = NoPackage
    /\ prev = NoPrev
    /\ pc = "init"
    /\ run = 1
    /\ disp = InitialDisp
    /\ atexit_registered = FALSE
    /\ ai_content_cache = EmptyDict
    /\ i = 0
    /\ card_note_ai = NoCard
    /\ response = "none"
    /\ dct = EmptyDict
    /\ deck = <<>>
    /\ audio_file_paths = <<>>
    /\ exc = "none"
    /\ hist = NewHist(NoFile)
    /\ other = NoOther

TwoNext ==
    \/ Construct
    \/ ConstructOther
    \/ OtherPut
    \/ OtherSaveOpen
    \/ OtherSaveDump
    \/ GenDeckEnter
    \/ LoopEnd
    \/ CacheHit
    \/ ProviderCall
    \/ ProviderReturn
    \/ Merge
    \/ Render
    \/ FinallySaveOpen
    \/ FinallySaveDump
    \/ Export
    \/ \E sig \in Signals : signal_handler(sig)
    \/ \E sig \in Signals : OtherSignalHandler(sig)

TwoSpec == TwoInit /\ [][TwoNext]_vars
\* ========================================================== the claims
Dead == pc = "dead"

Prefix(a, b) == Len(a) <= Len(b) /\ \A k \in 1..Len(a) : a[k] = b[k]

FileKeys == DOMAIN ai_cache_file.doc

Distinct(l) == \A a, b \in DOMAIN l : a # b => l[a] # l[b]

\* The process that has just ended executed gen_deck with a cache
\* directory and ended by itself or by a handled signal.
EndedGenDeck ==
    /\ Dead /\ cache_dir /\ prev.entered
    /\ prev.exit \in {"normal", "error"} \/ (prev.exit = "signal" /\ prev.handled)

\* C1 as stated: with a cache directory, between the end of the loop and
\* the end of the process _save_ai_cache runs exactly once, however the
\* loop ended (all items done, an exception, SIGINT or SIGTERM).
C1_FlushExactlyOnce == EndedGenDeck => prev.flushes = 1

\* C1 amended: the flush runs at least once, and exactly twice when the
\* loop ends with all items done or with an exception and the interpreter
\* then exits: once in the finally block, once from the atexit callback.
C1_FlushAtLeastOnce ==
    EndedGenDeck =>
        /\ prev.flushes >= 1
        /\ prev.exit \in {"normal", "error"} => prev.flushes = 2

C1_Witness == EndedGenDeck /\ prev.exit = "error" /\ prev.flushes = 2

\* The first process (it starts with no cache file) has been ended by a
\* handled signal, the items being distinct.
FirstInterrupted ==
    /\ Dead /\ cache_dir /\ run = 1
    /\ prev.exit = "signal" /\ prev.handled
    /\ Distinct(items)

Accumulated == {items[k] : k \in 1..prev.n}

InterruptedInFlight ==
    /\ cache_dir /\ prev.inflight # ""
    /\ prev.exit = "error" \/ (prev.exit = "signal" /\ prev.handled)

\* In the process that follows, the loop has gone past that item.
PassedInFlight ==
    /\ ~Dead /\ run > 1 /\ InterruptedInFlight
    /\ \E k \in 1..Len(items) : k < i /\ items[k] = prev.inflight

ProviderCalledFor(item) == \E k \in Range(hist.provider) : items[k] = item

Resumed ==
    /\ ~Dead /\ run > 1 /\ cache_dir
    /\ prev.exit \in {"error", "signal"} /\ prev.dumped

ProviderItems == {items[k] : k \in Range(hist.provider)}

LoopDone == i > Len(items)

\* C4: the run that follows an early end makes no provider call for an
\* item that has an entry in the cache file it started with, makes at most
\* one call per item, and once its loop is through it has called the
\* provider for exactly the items that had no entry.
C4_ResumeCallsOnlyMissing ==
    Resumed =>
        /\ ProviderItems \cap DOMAIN hist.start_file.doc = {}
        /\ \A a, b \in DOMAIN hist.provider :
              a # b => items[hist.provider[a]] # items[hist.provider[b]]
        /\ LoopDone => ProviderItems = Range(items) \ DOMAIN hist.start_file.doc

C4_Witness ==
    /\ Resumed /\ LoopDone /\ Len(items) = 2
    /\ DOMAIN hist.start_file.doc = {items[1]}
    /\ hist.provider = <<2>>

\* A later process with the cache directory follows one whose gen_deck
\* returned and which exited normally.
Rerun ==
    /\ ~Dead /\ run > 1 /\ cache_dir
    /\ prev.exit = "normal" /\ prev.exported

\* C5: the run that follows a completed run makes no provider call, and
\* the notes it renders are, one by one, the notes of the completed run:
\* the same guid and the same sequence of field strings.
C5_RerunSameNotes ==
    Rerun =>
        /\ hist.provider = <<>>
        /\ Prefix(deck, prev.deck)
        /\ LoopDone => deck = prev.deck

C5_Witness ==
    /\ Rerun /\ LoopDone /\ Len(deck) = 2 /\ deck = prev.deck
    /\ \E k \in 1..2 : \E f \in Range(deck[k].fields) : f = "a - x<br>b - y"

\* The step in which a process that holds a pipeline with a cache
\* directory (its constructor has registered the cleanup handlers) gets
\* signal sig and dies of it.
HandledStep(sig) ==
    /\ cache_dir /\ atexit_registered /\ pc # "dead"
    /\ pc' = "dead" /\ prev'.sig = sig

\* C6: the step a SIGINT or SIGTERM takes in a process that holds a
\* pipeline with a cache directory is the handler's: the cache file holds
\* every record put so far, the process ends by that very signal and not
\* by a normal exit, no note is added, no media or audio file is written
\* and no package is exported.
C6_HandlerSavesThenDies ==
    [][\A sig \in Signals :
         HandledStep(sig) =>
            /\ disp[sig] = "signal_handler"
            /\ ai_cache_file' = Written(json_dump(ai_content_cache))
            /\ prev'.exit = "signal" /\ prev'.handled
            /\ prev'.n = Len(deck)
            /\ prev'.exported = hist.exported
            /\ UNCHANGED << package_file, media_dir, audio_cache >>]_vars

C6_Witness ==
    /\ Dead /\ cache_dir /\ prev.handled /\ prev.sig = "SIGTERM"
    /\ prev.n = 1 /\ prev.stage = "resolved"
    /\ ai_cache_file = Written(json_dump(prev.flushed))
    /\ DOMAIN prev.flushed = {"w1", "w2"}
    /\ package_file = NoPackage

AfterLoopPcs == {"finally", "finally_dump", "raised", "atexit", "atexit_dump", "exit"}

\* C7: once the provider call has failed for item k, an exception is on
\* its way out of gen_deck (never caught, never an export or a return), the
\* deck has the k-1 notes before k, no provider or synthesis call is made
\* for an item after k, item k was called once, and the cache file written
\* on the way out holds the whole cache: what was loaded at the start and
\* the records of the items before k.
C7_ProviderFailureAborts ==
    hist.failed_at # 0 =>
        /\ exc \in {"GenerationError", "KeyboardInterrupt"}
        /\ pc \in AfterLoopPcs
        /\ i = hist.failed_at /\ Len(deck) = i - 1
        /\ \A k \in Range(hist.provider) : k <= i
        /\ Cardinality({a \in DOMAIN hist.provider : hist.provider[a] = i}) = 1
        /\ \A k \in Range(hist.synth) : k < i
        /\ cache_dir /\ pc \in {"raised", "atexit", "exit"} =>
              /\ ai_cache_file = Written(json_dump(ai_content_cache))
              /\ \A k \in 1..(i - 1) : items[k] \in FileKeys
              /\ DOMAIN hist.start_file.doc \subseteq FileKeys
              /\ \A w \in DOMAIN hist.start_file.doc :
                    hist.start_file.st = "full" =>
                        ai_cache_file.doc[w] = hist.start_file.doc[w]

C7_Witness ==
    /\ hist.failed_at = 2 /\ exc = "GenerationError" /\ pc = "raised"
    /\ cache_dir /\ FileKeys = {items[1]} /\ items[2] # items[1]

LoopExceptions == {"GenerationError", "SynthesisError", "ValidationError"}

\* C8 as stated: the package is written only with every item accumulated
\* and after a flush; with an exception raised inside the loop, or with a
\* termination signal handled, no package file is written.
C8_NoPackageWhenInterrupted ==
    /\ hist.exported =>
          /\ Len(deck) = Len(items) /\ package_file.notes = deck
          /\ cache_dir => hist.dumps >= 1
    /\ exc \in LoopExceptions => ~hist.exported
    /\ run = 1 /\ ~Dead /\ ~hist.exported => package_file = NoPackage
    /\ run = 1 /\ Dead /\ prev.handled => package_file = NoPackage

\* C8 amended: as stated, but for the signal: no package file is written
\* when the signal is handled before the export statement has run; a signal
\* handled after it (while the interpreter shuts down) finds the package
\* written.
C8_NoPackageWhenInterruptedBeforeExport ==
    /\ hist.exported =>
          /\ Len(deck) = Len(items) /\ package_file.notes = deck
          /\ cache_dir => hist.dumps >= 1
    /\ exc \in LoopExceptions => ~hist.exported
    /\ run = 1 /\ ~Dead /\ ~hist.exported => package_file = NoPackage
    /\ run = 1 /\ Dead /\ prev.handled =>
          /\ package_file.written <=> prev.exported
          /\ prev.n < Len(items) => package_file = NoPackage

C8_Witness ==
    /\ run = 1 /\ Dead /\ prev.handled /\ prev.n = 1 /\ Len(items) = 2
    /\ package_file = NoPackage

\* C9 as stated: at every instant the cache file is a complete document,
\* the in-memory map as it was at a flush.
C9_AlwaysCompleteSnapshot ==
    cache_dir =>
        /\ ai_cache_file.st # "partial"
        /\ ai_cache_file.st = "full" /\ hist.dumps > 0 =>
              ai_cache_file = Written(json_dump(hist.flushed))

\* A later process has loaded the cache file that the process before it
\* wrote last.
Reloaded ==
    /\ ~Dead /\ atexit_registered /\ run > 1 /\ cache_dir
    /\ prev.dumped /\ hist.start_file.st = "full"

\* C10: for every key k with record r in the map that was flushed, the
\* pipeline that loads the file has r for k, field for field, the schema
\* accepts it, the loop gets r for the item k, and no provider call is made
\* for k.
C10_PutFlushLoad ==
    Reloaded =>
        /\ \A k \in DOMAIN prev.flushed :
              /\ k \in DOMAIN ai_content_cache
              /\ ai_content_cache[k] = prev.flushed[k]
              /\ Validates(ai_content_cache[k])
              /\ k \notin ProviderItems
        /\ pc = "merge" /\ items[i] \in DOMAIN prev.flushed =>
              card_note_ai = prev.flushed[items[i]]

C10_Witness ==
    /\ Reloaded /\ pc = "merge" /\ items[i] \in DOMAIN prev.flushed
    /\ \E f \in DOMAIN card_note_ai : card_note_ai[f] = PyList(<<"a - x", "b - y">>)

\* A process with the cache directory found a cache file that does not
\* parse (it had been truncated and never written).
UnreadableStart == ~Dead /\ cache_dir /\ hist.start_file.st = "partial"

\* The items the loop has called gen_ai_content for.
Reached == {k \in 1..Len(items) : k < i \/ (k = i /\ pc \in TryPcs \ {"loop"})}

\* C11: with a cache file that does not parse, the constructor completes
\* (only the user's Ctrl-C ends the process before the handlers are
\* registered), the pipeline starts with the empty cache, and gen_deck
\* calls the provider for every item it reaches, as with no cache file:
\* once for each item text, at its first occurrence.
C11_UnreadableCacheIsEmpty ==
    UnreadableStart =>
        /\ pc # "init" /\ ~atexit_registered => exc = "KeyboardInterrupt"
        /\ pc = "gen_deck" => ai_content_cache = EmptyDict /\ exc = "none"
        /\ \A k \in Reached : items[k] \in ProviderItems
        /\ \A k \in Range(hist.provider) : \A j \in 1..(k - 1) : items[j] # items[k]
        /\ LoopDone /\ Distinct(items) => hist.provider = [k \in 1..Len(items) |-> k]

C11_Witness ==
    /\ UnreadableStart /\ LoopDone /\ exc = "none"
    /\ Len(items) = 2 /\ hist.provider = <<1, 2>>

\* Two fields of the schema have the same name once spaces are replaced by
\* underscores.
Collides(schema) ==
    \E a, b \in DOMAIN schema :
        a # b /\ replace(schema[a].name, " ", "_") = replace(schema[b].name, " ", "_")

\* C12 as stated: with such a schema the construction fails with a schema
\* error, and no provider or synthesis call is ever made.
C12_CollisionIsSchemaError ==
    Collides(ai_schema) /\ pc # "init" =>
        /\ exc = "SchemaError"
        /\ hist.provider = <<>>
        /\ hist.synth = <<>>

\* gen_audio_file has returned for item i without a synthesis call: the
\* audio cache held a file of the item's file name.
AudioHit ==
    /\ ~Dead /\ gen_audio /\ cache_dir
    /\ pc = "audio_done" /\ i \notin Range(hist.synth)

MissPcs == {"synth", "audio_write", "audio_copy"}

\* C13 as stated: when the audio cache holds the file of the guid's name,
\* no synthesis is called (control is never on the synthesis path), and the
\* output media file has the bytes of the cached file, which are the bytes
\* synthesized for the item.
C13_CachedAudioServed ==
    /\ ~Dead /\ pc \in MissPcs => ~(cache_dir /\ audio_basename(i) \in DOMAIN audio_cache)
    /\ AudioHit =>
          /\ audio_basename(i) \in DOMAIN audio_cache
          /\ media_dir[audio_basename(i)] = audio_cache[audio_basename(i)]
          /\ audio_cache[audio_basename(i)] \in synthesize_speech(items[i])

AudioMiss == ~(cache_dir /\ audio_basename(i) \in DOMAIN audio_cache)

\* C14: synthesis is called on a miss only and once for an item; the
\* synthesized bytes are written to the output media file while the cache
\* has no file of that name; the cache gets a file only after the output
\* file holds the synthesized bytes, under the same name and with the
\* bytes of the output file; a failed synthesis, then and until the
\* process ends, creates no output file and no cache file.
C14_MissSynthesizesWritesThenCopies ==
    [][/\ hist'.synth # hist.synth /\ pc' # "dead" =>
            /\ pc = "audio" /\ AudioMiss
            /\ i \notin Range(hist.synth)
            /\ hist'.synth = Append(hist.synth, i)
       /\ media_dir' # media_dir /\ pc = "audio_write" =>
            /\ i \in Range(hist.synth)
            /\ response \in synthesize_speech(items[i])
            /\ media_dir' = SetItem(media_dir, audio_basename(i), response)
            /\ AudioMiss /\ UNCHANGED audio_cache
       /\ audio_cache' # audio_cache =>
            /\ audio_basename(i) \in DOMAIN media_dir
            /\ media_dir[audio_basename(i)] \in synthesize_speech(items[i])
            /\ DOMAIN audio_cache' = DOMAIN audio_cache \cup {audio_basename(i)}
            /\ \A nm \in DOMAIN audio_cache \ {audio_basename(i)} :
                  audio_cache'[nm] = audio_cache[nm]
            /\ pc' = "audio_done" => audio_cache'[audio_basename(i)] = media_dir[audio_basename(i)]
            /\ UNCHANGED media_dir
       /\ exc' = "SynthesisError" =>
            /\ exc = "none" => pc = "synth" /\ pc' = "finally"
            /\ UNCHANGED << media_dir, audio_cache >>
      ]_vars

C14_Witness ==
    /\ ~Dead /\ cache_dir /\ pc = "audio_done" /\ hist.synth = <<1, 2>>
    /\ audio_cache[audio_basename(2)] = media_dir[audio_basename(2)]
    /\ audio_cache[audio_basename(2)] \in synthesize_speech(items[2])

\* C15: the lookup is by the file name of the guid alone.  With a file of
\* that name in the cache, whatever text it was synthesized for, control
\* never enters the synthesis path and the output file gets the cached
\* bytes; with no file of that name, whatever was synthesized for the same
\* text under other names, the audio is not served without a synthesis
\* call for this item.
C15_KeyIsFileName ==
    ~Dead /\ gen_audio /\ cache_dir =>
        /\ pc \in MissPcs => audio_basename(i) \notin DOMAIN audio_cache
        /\ AudioHit =>
              /\ audio_basename(i) \in DOMAIN audio_cache
              /\ media_dir[audio_basename(i)] = audio_cache[audio_basename(i)]
        /\ \A k \in Range(hist.synth) :
              k < i => audio_cache[audio_basename(k)] \in synthesize_speech(items[k])

\* Item 1 was served bytes synthesized for another text, and item 2, of
\* the same text as item 1, was synthesized under its own name.
C15_Witness ==
    /\ ~Dead /\ gen_audio /\ cache_dir /\ pc = "audio_done" /\ i = 2
    /\ items[1] = items[2] /\ hist.synth = <<2>>
    /\ media_dir[audio_basename(1)] \notin synthesize_speech(items[1])
    /\ media_dir[audio_basename(2)] \in synthesize_speech(items[2])

\* The note of item i-1 has just been added; dct is still its data map.
Rendered == ~Dead /\ pc = "loop" /\ i > 1

ModelFields == anki_fields(gen_audio)

\* The positions of the model's fields that the data map has, and those of
\* them whose value gen_anki_note has a branch for.
Present == {k \in DOMAIN ModelFields : ModelFields[k] \in DOMAIN dct}

Supported(v) == v.t \in {"str", "list", "int", "float"}

Emitting ==
    {k \in Present : ModelFields[k] = audio_name \/ Supported(dct[ModelFields[k]])}

Rank(S, k) == Cardinality({j \in S : j <= k})

Expected(f, v) ==
    IF f = audio_name THEN "[sound:" \o format(v) \o "]"
    ELSE CASE v.t = "str" -> v.s
           [] v.t = "list" -> join("<br>", v.l)
           [] v.t = "int" -> IntStr(v.n)
           [] v.t = "float" -> FloatStr(v.n)

\* C16: when every field the data map has is audio, a string, a list of
\* strings, an integer or a float, the note has one string for each model
\* field present in the data map and none for the others, in the order of
\* the model's fields: the sound marker for audio, the string itself, the
\* list joined with "<br>", the decimal form of the number.
C16_RenderInFieldOrder ==
    Rendered /\ Present = Emitting =>
        LET out == deck[i - 1].fields
        IN  /\ Len(out) = Cardinality(Present)
            /\ \A k \in Present :
                  out[Rank(Present, k)] = Expected(ModelFields[k], dct[ModelFields[k]])

C16_Witness ==
    /\ Rendered /\ Present = Emitting /\ gen_audio
    /\ Len(ModelFields) = 5 /\ Cardinality(Present) = 5
    /\ deck[1].fields = <<"w1", "noun", "a - x<br>b - y", "1.5", "[sound:KoEn-1.mp3]">>

\* C17: a field other than audio whose value is a boolean, None or a
\* nested mapping gets no string and no placeholder: the note is shorter by
\* the number of such fields, the other fields keep their order and their
\* strings, no exception is raised, the note is added and the loop goes on
\* with the next item.
C17_UnsupportedDropped ==
    /\ Rendered /\ Present # Emitting =>
          LET out == deck[i - 1].fields
          IN  /\ Len(out) = Cardinality(Present) - Cardinality(Present \ Emitting)
              /\ \A k \in Emitting :
                    out[Rank(Emitting, k)] = Expected(ModelFields[k], dct[ModelFields[k]])
              /\ Len(deck) = i - 1 /\ deck[i - 1].guid = guid_of(i - 1)
    /\ \A f \in DOMAIN provided_content :
          provided_content # NoContent /\ ~Supported(provided_content[f][1]) =>
              /\ exc = "none"
              /\ pc \in TryPcs => Len(deck) = i - 1
              /\ hist.exported => Len(deck) = Len(items)

C17_Witness ==
    /\ Rendered /\ i = 3 /\ Len(deck) = 2 /\ ~gen_audio
    /\ provided_fields[1] \in DOMAIN dct /\ dct[provided_fields[1]] = PyNone
    /\ Len(ModelFields) = 4
    /\ deck[1].fields = <<"w1", "noun", "a - x<br>b - y">>
    /\ Len(deck[2].fields) = 3

Increasing(l) == \A a, b \in DOMAIN l : a < b => l[a] < l[b]

\* The place of the item field among the note's fields.
ItemPos ==
    IF field_order = <<>> THEN 1
    ELSE CHOOSE k \in DOMAIN field_order : field_order[k] = item_field

AudioPcs == {"audio", "synth", "audio_write", "audio_copy", "audio_copying", "audio_done"}

\* Where item i stands: its content is resolved before its audio, its audio
\* before its rendering, and the items before it, and only they, are in the
\* deck, in list order.
InOrder ==
    /\ pc \in TryPcs =>
          /\ Len(deck) = i - 1
          /\ \A k \in Range(hist.provider) \cup Range(hist.synth) : k <= i
    /\ Increasing(hist.provider) /\ Increasing(hist.synth)
    /\ deck # <<>> =>
          LET pos == ItemPos
          IN  \A k \in DOMAIN deck :
                  /\ deck[k].guid = guid_of(k)
                  /\ Len(deck[k].fields) >= pos /\ deck[k].fields[pos] = items[k]
    /\ pc \in {"loop", "provider"} => i \notin Range(hist.synth)
    /\ pc \in {"merge"} \cup AudioPcs \cup {"render"} => Validates(card_note_ai)
    /\ pc \in AudioPcs \cup {"render"} =>
          \A f \in DOMAIN card_note_ai :
              /\ replace(f, "_", " ") \in DOMAIN dct
              /\ dct[replace(f, "_", " ")] = card_note_ai[f]
    /\ pc \in AudioPcs => gen_audio /\ audio_name \notin DOMAIN dct
    /\ pc = "render" =>
          IF gen_audio
          THEN /\ audio_name \in DOMAIN dct
               /\ dct[audio_name] = PyStr(audio_basename(i))
               /\ audio_basename(i) \in DOMAIN media_dir
          ELSE audio_name \notin DOMAIN dct /\ hist.synth = <<>>

\* C18: every step of a gen_deck execution keeps the items in order
\* (InOrder), and the deck changes only by the step that appends the
\* rendered note of item i and moves on to item i+1.
C18_OneItemAtATimeInOrder ==
    /\ [](pc # "dead" => InOrder)
    /\ [][/\ deck' # deck /\ pc' # "dead" /\ pc # "gen_deck" =>
                /\ pc = "render"
                /\ deck' = Append(deck, gen_anki_note(guid_of(i), dct, gen_audio))
                /\ i' = i + 1
          /\ i' # i /\ pc' # "dead" /\ pc # "gen_deck" => Len(deck') = Len(deck) + 1
         ]_vars

C18_Witness ==
    /\ ~Dead /\ pc = "loop" /\ i = 3 /\ gen_audio /\ Len(deck) = 2
    /\ hist.provider = <<1, 2>> /\ hist.synth = <<1, 2>>
    /\ deck[2].guid = guid_of(2) /\ deck[2].fields[ItemPos] = items[2]

\* The step in which gen_ai_content gets the provider's answer and puts it.
PutStep == pc = "provider" /\ pc' = "merge"

\* A step of _save_ai_cache: in the finally block, at interpreter exit, or
\* in the signal handler.
FlushStep ==
    /\ cache_dir
    /\ \/ pc = "finally" /\ pc' = "finally_dump"
       \/ pc = "finally_dump" /\ pc' \in {"export", "raised"}
       \/ pc = "atexit" /\ pc' = "atexit_dump"
       \/ pc = "atexit_dump" /\ pc' = "exit"
       \/ pc # "dead" /\ pc' = "dead" /\ prev'.exit = "signal" /\ prev'.handled

\* C19: a put changes the in-memory map and nothing on disk, and the cache
\* file changes only in a step of a flush, which leaves it truncated or
\* holding the whole map.
C19_PutDoesNotPersist ==
    [][/\ PutStep =>
             /\ UNCHANGED disk
             /\ cache_dir => ai_content_cache' = SetItem(ai_content_cache, items[i], card_note_ai')
             /\ ~cache_dir => UNCHANGED ai_content_cache
       /\ ai_cache_file' # ai_cache_file =>
             /\ FlushStep
             /\ ai_cache_file' \in {Truncated, Written(json_dump(ai_content_cache))}
      ]_vars

C19_Witness ==
    /\ ~Dead /\ cache_dir /\ run = 1 /\ pc = "loop" /\ i = 3
    /\ DOMAIN ai_content_cache = {"w1", "w2"}
    /\ ai_cache_file = NoFile

\* C20 as stated: the keys of the cache file after a flush are there after
\* every later flush: what the process before this one wrote last is
\* within what this process has written last.
C20_KeysNeverLost ==
    ~Dead /\ run > 1 /\ cache_dir /\ prev.dumped /\ hist.dumps > 0 =>
        DOMAIN prev.flushed \subseteq DOMAIN hist.flushed

\* The pipeline has just been constructed: its note model is built.
ModelBuilt == pc = "gen_deck"

\* The places of a template's tags of one kind.
Tags(t, kind) == {j \in DOMAIN t : t[j].k = kind}

\* The part before the first part of field k's section.
SectionAt(k) == 3 + 7 * (k - 1)

\* Whether a card shows part j of a template for a note with the field
\* values vals: every section around it is of a field that has a value.
Visible(t, j, vals) ==
    \A a \in Tags(t, "#"), b \in Tags(t, "/") :
        a < j /\ j < b /\ t[a].s = t[b].s => vals[t[a].s] # ""

\* The notes that have a value for every field, or for every field but one.
AllBut(names, nm) == [f \in names |-> IF f = nm THEN "" ELSE "v"]

\* C21: the back template has, for every field of the note model and in
\* the order of the fields, one section opened and closed with the field's
\* name that holds the field's label and the field's value and nothing of
\* another field, so that a card shows the label of a field exactly when
\* the note has a value for it; there are no other sections; the front
\* template has one replacement tag, that of the item field.
C21_BackTemplateSections ==
    ModelBuilt =>
        LET F == anki_model(gen_audio).fields
            T == anki_model(gen_audio).afmt
            Q == anki_model(gen_audio).qfmt
            names == {Text(F[k]) : k \in DOMAIN F}
        IN  /\ Len(T) = 7 * Len(F) + 4
            /\ Tags(T, "#") = {SectionAt(k) + 1 : k \in DOMAIN F}
            /\ Tags(T, "/") = {SectionAt(k) + 7 : k \in DOMAIN F}
            /\ Tags(T, "var") = {2} \cup {SectionAt(k) + 5 : k \in DOMAIN F}
            /\ \A k \in DOMAIN F :
                  /\ T[SectionAt(k) + 1] = Open(Text(F[k]))
                  /\ T[SectionAt(k) + 3] = Txt(Text(F[k]))
                  /\ T[SectionAt(k) + 5] = Var(Text(F[k]))
                  /\ T[SectionAt(k) + 7] = Close(Text(F[k]))
                  /\ ~Visible(T, SectionAt(k) + 3, AllBut(names, Text(F[k])))
                  /\ \A nm \in names \cup {""} :
                        nm # Text(F[k]) =>
                            /\ Visible(T, SectionAt(k) + 3, AllBut(names, nm))
                            /\ Visible(T, SectionAt(k) + 5, AllBut(names, nm))
            /\ Tags(Q, "#") = {} /\ Tags(Q, "/") = {}
            /\ \A j \in Tags(Q, "var") : Q[j].s = Text(item_field)
            /\ Cardinality(Tags(Q, "var")) = 1

C21_Witness ==
    /\ ModelBuilt /\ gen_audio /\ field_order = <<>>
    /\ Text(item_field) = "the_w" /\ Len(anki_model(gen_audio).fields) = 5
    /\ anki_model(gen_audio).afmt[4] = Open("the_w")
    /\ anki_model(gen_audio).afmt[SectionAt(5) + 3] = Txt("audio")
    /\ anki_model(gen_audio).afmt[SectionAt(4) + 7] = Close("my f")

\* C22: the note of the item at one-based position k (zero-based k-1) has
\* the guid guids[k-1] when a guid list is given, and otherwise the deck
\* name without its spaces, a hyphen and k; with no guid list the notes of
\* the deck have pairwise distinct guids.  The same holds of the notes of
\* the package.
C22_GuidOfNote ==
    \A notes \in {deck, package_file.notes} :
        /\ \A k \in DOMAIN notes :
              notes[k].guid = IF guids.given THEN guids.list[k]
                              ELSE "KoEn-" \o DecStr(k)
        /\ ~guids.given => Distinct([k \in DOMAIN notes |-> notes[k].guid])

C22_Witness ==
    /\ guids.given /\ Len(guids.list) = MaxItems /\ hist.exported
    /\ Len(package_file.notes) = 2
    /\ package_file.notes[1].guid = "g1" /\ package_file.notes[2].guid = "g2"

\* A name as the note model writes it: with spaces for underscores (and so
\* for the underscores gen_ai_schema puts for spaces).
Spaced(nm) == [k \in DOMAIN nm |-> IF nm[k] \in {"_", " "} THEN " " ELSE nm[k]]

\* The schema's entries that are the first of their name.
Firsts ==
    {k \in DOMAIN ai_schema :
        \A j \in 1..(k - 1) : Spaced(ai_schema[j].name) # Spaced(ai_schema[k].name)}

\* C23: with no field order the note model's fields are the item field,
\* then the schema's fields in the order of the schema, then the provided
\* fields; with a field order they are its names, in its order (the names
\* as the note model writes them); after them comes audio, once, exactly
\* when audio generation is on and none of them is audio.
C23_FieldList ==
    ModelBuilt =>
        LET F == anki_model(gen_audio).fields
            n == IF field_order = <<>>
                 THEN 1 + Cardinality(Firsts) + Len(provided_fields)
                 ELSE Len(field_order)
            named == \E k \in 1..n : F[k] = audio_name
        IN  /\ Len(F) >= n
            /\ IF field_order = <<>>
               THEN /\ F[1] = item_field
                    /\ \A k \in Firsts :
                          F[1 + Rank(Firsts, k)] = Spaced(ai_schema[k].name)
                    /\ \A k \in DOMAIN provided_fields :
                          F[1 + Cardinality(Firsts) + k] = Spaced(provided_fields[k])
               ELSE \A k \in DOMAIN field_order : F[k] = Spaced(field_order[k])
            /\ IF gen_audio /\ ~named
               THEN Len(F) = n + 1 /\ F[n + 1] = audio_name
               ELSE Len(F) = n

C23_Witness ==
    /\ ModelBuilt /\ gen_audio
    /\ field_order = <<item_field, audio_name, ai_schema[1].name>>
    /\ item_field = <<"t", "h", "e", "_", "w">>
    /\ anki_model(gen_audio).fields =
          << <<"t", "h", "e", " ", "w">>, audio_name, <<"t", "y", "p", "e">> >>

\* The item at position k has the text of an item before it.
Repeats(k) == \E j \in 1..(k - 1) : items[j] = items[k]

\* C24: with a cache directory a process calls the provider at most once
\* for a text and never for an item whose text an earlier item has; the
\* record an item goes on with is the one the cache holds for its text;
\* and when the loop is through the cache has an entry for each text of
\* the list and for nothing else, the first process having made one call
\* for each.
C24_OneCallPerText ==
    ~Dead /\ cache_dir =>
        /\ \A a, b \in DOMAIN hist.provider :
              a # b => items[hist.provider[a]] # items[hist.provider[b]]
        /\ \A k \in DOMAIN items : Repeats(k) => k \notin Range(hist.provider)
        /\ pc = "merge" =>
              /\ items[i] \in DOMAIN ai_content_cache
              /\ card_note_ai = ai_content_cache[items[i]]
        /\ LoopDone =>
              /\ DOMAIN ai_content_cache = Range(items)
              /\ run = 1 => Cardinality(Range(hist.provider)) = Cardinality(Range(items))

C24_Witness ==
    /\ ~Dead /\ cache_dir /\ run = 1 /\ pc = "merge" /\ i = 2
    /\ items = <<"w1", "w1">> /\ hist.provider = <<1>>
    /\ Len(deck) = 1 /\ card_note_ai = ai_content_cache["w1"]

\* The complete bytes of the synthesis results.
Clips == UNION {synthesize_speech(w) : w \in ItemTexts}

\* C25 as stated: at every instant, and after any interruption, every file
\* of the audio cache directory holds the complete bytes of one synthesis
\* result, so that a process never takes a partial file for a cache hit.
C25_AudioCacheFilesComplete ==
    /\ \A nm \in DOMAIN audio_cache : audio_cache[nm] \in Clips
    /\ pc = "audio_done" => media_dir[audio_basename(i)] \in Clips

\* Both pipelines of the process are constructed and the process runs.
Both == ~Dead /\ atexit_registered /\ other.constructed

\* C26: once two pipelines with different cache directories are
\* constructed in a process, a termination signal runs the handler of the
\* one constructed last: that pipeline's cache is written to its file, and
\* the file of the pipeline constructed first is left as it is, without
\* the records put into that pipeline since its last flush.
C26_LastConstructedHandles ==
    [][Both /\ pc' = "dead" =>
          IF other.first
          THEN /\ ai_cache_file' = Written(json_dump(ai_content_cache))
               /\ other'.file = other.file /\ ~other'.handled
               /\ prev'.handled
          ELSE /\ other'.file = Written(json_dump(other.cache))
               /\ other'.handled
               /\ ai_cache_file' = ai_cache_file /\ ~prev'.handled
      ]_vars

\* The other pipeline was constructed first, flushed a record for w1 and
\* then got one for w2; the signal wrote the script's pipeline's cache and
\* left w2 out of the other's file.
C26_Witness ==
    /\ Dead /\ other.constructed /\ other.first /\ prev.handled
    /\ ai_cache_file.st = "full" /\ FileKeys = {"w1"}
    /\ other.file.st = "full" /\ DOMAIN other.file.doc = {"w1"}
    /\ DOMAIN other.cache = {"w1", "w2"}

\* The places of a note's fields that hold a sound marker for some file.
Markers(note) ==
    {j \in DOMAIN note.fields :
        \E k \in 1..MaxItems :
            /\ guids.given => k <= Len(guids.list)
            /\ note.fields[j] = "[sound:" \o guid_of(k) \o ".mp3]"}

Defaulted == provided_content = NoContent

ContentForFields ==
    /\ ~Defaulted
    /\ audio_name \in Range(ModelFields) => gen_audio
    /\ DOMAIN provided_content = Range(provided_fields)
    /\ \A f \in DOMAIN provided_content, k \in DOMAIN items :
          Supported(provided_content[f][k])

\* C29 as stated: for every item the data map has a key for the note
\* model's name of every field of the field list, and the note has one
\* string per model field, also when the name of a provided field or of
\* the item field has an underscore.
C29_DataMapHasEveryModelField ==
    ContentForFields /\ ~Dead =>
        /\ pc = "render" => \A k \in DOMAIN ModelFields : ModelFields[k] \in DOMAIN dct
        /\ \A k \in DOMAIN deck : Len(deck[k].fields) = Len(ModelFields)
====
